---- MODULE Spec2Model ----
(***************************************************************************)
(* The interceptor-based HTTP client (api-client), the mock/live data      *)
(* source switch (userApi) and the query hooks that call them              *)
(* (useLogin, useLogout, ...), as a state machine over the browser state   *)
(* they share: localStorage, window.location and the query cache.          *)
(***************************************************************************)
EXTENDS Integers, Sequences, FiniteSets, TLC

(***************************************************************************)
(* Bounds of the model.                                                    *)
(***************************************************************************)
\* number of userApi calls that can be in flight or settled at once
MaxCalls == 2
\* getUsers is called with page in 0..MaxPage
MaxPage == 2
\* getUsers is called with size in 1..MaxSize, and with the default size
MaxSize == 3

(***************************************************************************)
(* Optional values: a JS value that may be null/undefined.                 *)
(***************************************************************************)
Absent == << >>
Some(v) == << v >>
Get(o) == o[1]

\* JS truthiness of a string-or-null value: null, undefined and "" are falsy.
Truthy(o) == o # Absent /\ o # Some("")

\* a || b on optional strings
Or(a, b) == IF Truthy(a) THEN a ELSE b

(***************************************************************************)
(* Fixtures (mock/user.mock.ts).                                           *)
(***************************************************************************)
mockCurrentUser ==
  [id |-> "1", email |-> "demo@example.com", firstName |-> "Demo",
   lastName |-> "User", role |-> "USER", createdAt |-> "t0", updatedAt |-> "t0"]

mockUsers ==
  << mockCurrentUser,
     [id |-> "2", email |-> "admin@example.com", firstName |-> "Admin",
      lastName |-> "User", role |-> "ADMIN", createdAt |-> "t0", updatedAt |-> "t0"],
     [id |-> "3", email |-> "guest@example.com", firstName |-> "Guest",
      lastName |-> "User", role |-> "GUEST", createdAt |-> "t0", updatedAt |-> "t0"] >>

mockLoginResponse == [user |-> mockCurrentUser, token |-> "mock-jwt-token-12345"]

\* getUsers' default page size
DefaultPageSize == 10

(***************************************************************************)
(* Array.prototype.find and Array.prototype.slice, on sequences indexed    *)
(* from 1 (JS indexes from 0).                                             *)
(***************************************************************************)
Min(a, b) == IF a < b THEN a ELSE b
Max(a, b) == IF a > b THEN a ELSE b

\* users.find(u => u.id === id): the first match, or undefined
find(users, id) ==
  LET hits == {i \in 1..Len(users) : users[i].id = id}
  IN  IF hits = {} THEN Absent
      ELSE Some(users[CHOOSE i \in hits : \A j \in hits : i <= j])

\* arr.slice(begin, end): negative indices count from the end, both are
\* clamped to 0..length, and the result is empty when end <= begin
slice(arr, begin, end) ==
  LET n == Len(arr)
      b == IF begin < 0 THEN Max(n + begin, 0) ELSE Min(begin, n)
      e == IF end < 0 THEN Max(n + end, 0) ELSE Min(end, n)
  IN  IF e <= b THEN << >> ELSE SubSeq(arr, b + 1, e)

\* Math.ceil(a / b) for a >= 0, b > 0
ceilDiv(a, b) == IF a % b = 0 THEN a \div b ELSE (a \div b) + 1


(***************************************************************************)
(* Configuration (mock.config.ts, api.config.ts).                          *)
(***************************************************************************)
\* the values import.meta.env.VITE_MOCK_MODE can have at module load
EnvValues == {Absent, Some("true"), Some("false")}

\* MOCK_CONFIG as computed from the environment when the module is loaded
MockConfigOf(viteMockMode) == [enabled |-> (viteMockMode = Some("true"))]

\* API_CONFIG.headers
ApiConfigHeaders == [ContentType |-> "application/json", Authorization |-> Absent]

(***************************************************************************)
(* State.                                                                  *)
(***************************************************************************)
VARIABLES
  env,            \* import.meta.env.VITE_MOCK_MODE
  MOCK_CONFIG,    \* mock.config.ts, evaluated once at module load
  localStorage,   \* window.localStorage: key -> optional string
  location,       \* window.location.href
  queryCache,     \* the QueryClient's cache: query key -> [data, isInvalidated]
  calls,          \* the userApi calls: slot -> call record
  lastAuthEvent,  \* history: the most recent of login success / logout success / 401
  fixture,        \* the module-level array mockUsers as it is now
  serverError,    \* LoginForm: the server error it shows
  errors,         \* LoginForm: the field errors it shows
  formData,       \* LoginForm: what is typed into its fields
  navigated,      \* history: the target of useAuth's last navigate(), or "none"
  ui,             \* useUiStore: the state of the store
  lastUiAction,   \* history: the last action on the store, "reload" for its re-creation
  password,       \* a password handed to ValidationService
  strength,       \* what ValidationService said of it: [valid, message], or absent
  storageOp,      \* history: the last operation of LocalStorageService
  mutations       \* history: the << op, id >> of the mock updateUser and deleteUser calls that resolved

vars ==
  << env, MOCK_CONFIG, localStorage, location, queryCache, calls, lastAuthEvent, navigated,
     fixture, serverError, errors, formData, mutations,
     ui, lastUiAction, password, strength, storageOp >>

\* the state of the pieces that are not part of a userApi call
clientVars == << ui, lastUiAction, password, strength, storageOp >>

StorageKeys == {"auth_token", "ui-storage", "prefs"}

CallIds == 1..MaxCalls

Ops == {"getCurrentUser", "getUserById", "getUsers", "login", "logout",
        "updateUser", "deleteUser"}

IdleCall ==
  [pc |-> "idle", op |-> "none", args |-> << >>, via |-> "none", source |-> "none",
   request |-> Absent, received |-> Absent, value |-> Absent, error |-> Absent,
   requests |-> 0, response |-> Absent, thrown |-> Absent,
   attempt |-> 0, retrying |-> FALSE, removed |-> Absent]

Settled(c) == calls[c].pc \in {"resolved", "rejected"}

(***************************************************************************)
(* localStorage primitives.                                                *)
(***************************************************************************)
getItem(storage, key) == storage[key]
setItem(storage, key, value) == [storage EXCEPT ![key] = Some(value)]
removeItem(storage, key) == [storage EXCEPT ![key] = Absent]

(***************************************************************************)
(* Transport Client (api-client.ts).                                       *)
(***************************************************************************)
\* mutant: the interceptor forgets the header
RequestInterceptorNoHeader(config, storage) == config

\* request interceptor, success handler: adds the bearer header when a token
\* is stored, and returns the config (the request is then sent)
RequestInterceptor(config, storage) ==
  LET token == getItem(storage, "auth_token")
  IN  IF Truthy(token) /\ config.headers # Absent
      THEN [config EXCEPT
              !.headers = Some([Get(@) EXCEPT
                                  !.Authorization = Some("Bearer " \o Get(token))])]
      ELSE config

\* mutant: the success handler hands on a response of its own making
ResponseSuccessRewrites(response) == [response EXCEPT !.status = 204]

\* response interceptor, success handler: logging only
ResponseSuccess(response) == response

\* error.response?.status
ErrorStatus(error) ==
  IF error.response = Absent THEN Absent ELSE Some(Get(error.response).status)

\* error.response?.data?.[field]
ErrorBodyField(error, field) ==
  IF error.response = Absent THEN Absent
  ELSE IF Get(error.response).data = Absent THEN Absent
  ELSE Get(Get(error.response).data)[field]

FallbackMessage == "An unexpected error occurred"

\* mutant: the body's error field is preferred to its message field
ErrorMessageErrorFirst(error) ==
  Get(Or(Or(Or(ErrorBodyField(error, "error"), ErrorBodyField(error, "message")),
            Some(error.message)),
         Some(FallbackMessage)))

\* const errorMessage = data.message || data.error || error.message || fallback
ErrorMessage(error) ==
  Get(Or(Or(Or(ErrorBodyField(error, "message"), ErrorBodyField(error, "error")),
            Some(error.message)),
         Some(FallbackMessage)))

\* mutant: the status of the answer is dropped
NormalizedErrorNoStatus(error) ==
  [message |-> error.message, status |-> Absent, originalError |-> error]

\* the "more user-friendly error object"
NormalizedError(error) ==
  [message |-> ErrorMessage(error), status |-> ErrorStatus(error),
   originalError |-> error]

\* the 401 test of the failure handler
IsUnauthorized(error) ==
  ErrorStatus(error) = Some(401) /\ error.config # Absent

\* mutant: the 401 branch redirects but leaves the token in place
ResponseErrorKeepsToken(error, storage, loc) ==
  IF ErrorStatus(error) = Some(401) /\ error.config # Absent
  THEN [reject |-> error, localStorage |-> storage, location |-> "/login"]
  ELSE [reject |-> [message |-> error.message, status |-> ErrorStatus(error),
                    originalError |-> error],
        localStorage |-> storage, location |-> loc]

\* mutant: the 401 branch removes the token only when the failed request
\* carried it
ResponseErrorOwnToken(error, storage, loc) ==
  IF IsUnauthorized(error)
  THEN [reject |-> error,
        localStorage |->
          IF getItem(storage, "auth_token") # Absent
             /\ Get(Get(error.config).headers).Authorization
                  = Some("Bearer " \o Get(getItem(storage, "auth_token")))
          THEN removeItem(storage, "auth_token") ELSE storage,
        location |-> "/login"]
  ELSE [reject |-> NormalizedError(error),
        localStorage |-> storage,
        location |-> loc]

\* response interceptor, failure handler: what the promise rejects with and
\* the browser state it leaves
ResponseError(error, storage, loc) ==
  IF IsUnauthorized(error)
  THEN [reject |-> error,
        localStorage |-> removeItem(storage, "auth_token"),
        location |-> "/login"]
  ELSE [reject |-> NormalizedError(error),
        localStorage |-> storage,
        location |-> loc]

(***************************************************************************)
(* userApi (user.api.ts): the mock branches.  Each returns the settlement  *)
(* of the promise after simulateDelay: [ok, value] or [ok, error].         *)
(***************************************************************************)
Resolve(v) == [ok |-> TRUE, value |-> v]
Throw(message) == [ok |-> FALSE, error |-> [name |-> "Error", message |-> message]]

\* a resolved promise of void
Undefined == Absent

getCurrentUserMock == Resolve(Some(mockCurrentUser))

\* mutant: the lookup's miss is returned instead of thrown
getUserByIdMockNoThrow(id) == Resolve(find(fixture, id))

getUserByIdMock(id) ==
  LET user == find(fixture, id)
  IN  IF user = Absent THEN Throw("User not found") ELSE Resolve(user)

\* mutant: the page count is rounded down
getUsersMockFloor(page, size) ==
  Resolve(Some([content |-> slice(fixture, page * size, (page + 1) * size),
                totalElements |-> Len(fixture),
                totalPages |-> Len(fixture) \div size,
                size |-> size,
                number |-> page]))

getUsersMock(page, size) ==
  Resolve(Some([content |-> slice(fixture, page * size, (page + 1) * size),
                totalElements |-> Len(fixture),
                totalPages |-> ceilDiv(Len(fixture), size),
                size |-> size,
                number |-> page]))

\* mutant: only the email is looked at
loginMockEmailOnly(credentials) ==
  IF credentials.email # "" THEN Resolve(Some(mockLoginResponse))
  ELSE Throw("Invalid credentials")

\* credentials.email && credentials.password
loginMock(credentials) ==
  IF credentials.email # "" /\ credentials.password # ""
  THEN Resolve(Some(mockLoginResponse))
  ELSE Throw("Invalid credentials")

\* mutant: the mock logout fails
logoutMockThrows == Throw("Not logged in")

logoutMock == Resolve(Undefined)

\* { ...user, ...data }: the fields of data override those of user
Merge(user, data) ==
  [f \in DOMAIN user \cup DOMAIN data |-> IF f \in DOMAIN data THEN data[f] ELSE user[f]]

\* mutant: the found record is returned as it is, the patch dropped
updateUserMockUnpatched(id, data) ==
  LET user == find(fixture, id)
  IN  IF user = Absent THEN Throw("User not found") ELSE Resolve(user)

updateUserMock(id, data) ==
  LET user == find(fixture, id)
  IN  IF user = Absent THEN Throw("User not found")
      ELSE Resolve(Some(Merge(Get(user), data)))

deleteUserMock(id) == Resolve(Undefined)

\* mutant: the mock deleteUser removes the record from the array
MockFixtureAfterDeletes(op, args, users) ==
  IF op = "deleteUser" THEN SelectSeq(users, LAMBDA u : u.id # args[1]) ELSE users

\* the array mockUsers after the mock branch of userApi[op](...args) has run:
\* the branches only read it (find, slice, length), none writes to it
MockFixtureAfter(op, args, users) == users

\* the mock branch of userApi[op](...args)
MockSettlement(op, args) ==
  CASE op = "getCurrentUser" -> getCurrentUserMock
    [] op = "getUserById"    -> getUserByIdMock(args[1])
    [] op = "getUsers"       -> getUsersMock(args[1], args[2])
    [] op = "login"          -> loginMock(args[1])
    [] op = "logout"         -> logoutMock
    [] op = "updateUser"     -> updateUserMock(args[1], args[2])
    [] op = "deleteUser"     -> deleteUserMock(args[1])

(***************************************************************************)
(* userApi: the live branches.  The request each hands to apiClient, and   *)
(* what it returns from the response.                                      *)
(***************************************************************************)
Config(method, url) ==
  [method |-> method, url |-> url, headers |-> Some(ApiConfigHeaders)]

LiveRequest(op, args) ==
  CASE op = "getCurrentUser" -> Config("get", "/users/me")
    [] op = "getUserById"    -> Config("get", "/users/" \o args[1])
    [] op = "getUsers"       -> Config("get", "/users")
    [] op = "login"          -> Config("post", "/auth/login")
    [] op = "logout"         -> Config("post", "/auth/logout")
    [] op = "updateUser"     -> Config("put", "/users/" \o args[1])
    [] op = "deleteUser"     -> Config("delete", "/users/" \o args[1])

\* mutant: the body is returned as it is, the envelope not unwrapped
LiveReturnBody(op, response) ==
  IF op \in {"logout", "deleteUser"} THEN Undefined
  ELSE Some(response.data)

\* return response.data.data, or nothing for logout and deleteUser
LiveReturn(op, response) ==
  IF op \in {"logout", "deleteUser"} THEN Undefined
  ELSE Some(response.data.data)

\* mutant: logout has no mock branch
UsesMockButLogout(op, config) == config.enabled /\ op # "logout"

\* whether userApi[op] takes its mock branch
UsesMock(op, config) == config.enabled

(***************************************************************************)
(* Query hooks (useUser.ts): query keys and the cache.                     *)
(***************************************************************************)
userKeysAll == << "users" >>
userKeysLists == userKeysAll \o << "list" >>
userKeysList(page, size) == userKeysLists \o << ToString(page) \o ":" \o ToString(size) >>
userKeysDetails == userKeysAll \o << "detail" >>
userKeysDetail(id) == userKeysDetails \o << id >>
userKeysCurrent == userKeysAll \o << "current" >>

\* mutant: only the query whose key is the filter key itself matches
KeyMatchesExact(filter, key) == filter = key

\* partial query-key matching: the filter key is a prefix of the query's key
KeyMatches(filter, key) ==
  Len(filter) <= Len(key) /\ SubSeq(key, 1, Len(filter)) = filter

setQueryData(cache, key, data) ==
  [k \in DOMAIN cache \cup {key} |->
     IF k = key THEN [data |-> data, isInvalidated |-> FALSE] ELSE cache[k]]

removeQueries(cache, filter) ==
  [k \in {q \in DOMAIN cache : ~KeyMatches(filter, q)} |-> cache[k]]

invalidateQueries(cache, filter) ==
  [k \in DOMAIN cache |->
     IF KeyMatches(filter, k) THEN [cache[k] EXCEPT !.isInvalidated = TRUE]
     ELSE cache[k]]

\* the browser state the hooks' callbacks act on
Browser(storage, loc, cache) ==
  [localStorage |-> storage, location |-> loc, queryCache |-> cache]

\* useLogin: onSuccess
useLoginOnSuccess(data, b) ==
  [b EXCEPT !.localStorage = setItem(@, "auth_token", data.token),
            !.queryCache = setQueryData(@, userKeysCurrent, data.user)]

\* mutant: the token survives the logout
useLogoutOnSuccessKeepsToken(b) ==
  [b EXCEPT !.queryCache = removeQueries(@, userKeysAll), !.location = "/login"]

\* useLogout: onSuccess
useLogoutOnSuccess(b) ==
  [b EXCEPT !.localStorage = removeItem(@, "auth_token"),
            !.queryCache = removeQueries(@, userKeysAll),
            !.location = "/login"]

\* useUpdateUser: onSuccess
useUpdateUserOnSuccess(updatedUser, b) ==
  [b EXCEPT !.queryCache =
     invalidateQueries(setQueryData(@, userKeysDetail(updatedUser.id), updatedUser),
                       userKeysLists)]

\* useDeleteUser: onSuccess
useDeleteUserOnSuccess(deletedId, b) ==
  [b EXCEPT !.queryCache =
     invalidateQueries(removeQueries(@, userKeysDetail(deletedId)), userKeysLists)]

\* the query key of useCurrentUser / useUser / useUsers
QueryKey(op, args) ==
  CASE op = "getCurrentUser" -> userKeysCurrent
    [] op = "getUserById"    -> userKeysDetail(args[1])
    [] op = "getUsers"       -> userKeysList(args[1], args[2])

\* what the hook that made the call does when userApi[op] resolves with value
OnSuccess(op, args, value, b) ==
  CASE op = "login"      -> useLoginOnSuccess(Get(value), b)
    [] op = "logout"     -> useLogoutOnSuccess(b)
    [] op = "updateUser" -> useUpdateUserOnSuccess(Get(value), b)
    [] op = "deleteUser" -> useDeleteUserOnSuccess(args[1], b)
    [] OTHER -> [b EXCEPT !.queryCache = setQueryData(@, QueryKey(op, args), Get(value))]

(***************************************************************************)
(* useAuth (the authentication use case hook).                             *)
(***************************************************************************)
\* the data of useCurrentUser(): what the cache holds under userKeys.current()
currentUser(cache) ==
  IF userKeysCurrent \in DOMAIN cache THEN Some(cache[userKeysCurrent].data) ELSE Absent

\* mutant: the stored token is not looked at
isAuthenticatedUserOnly(cache, storage) == currentUser(cache) # Absent

\* !!currentUser && !!localStorage.getItem('auth_token')
isAuthenticated(cache, storage) ==
  currentUser(cache) # Absent /\ Truthy(getItem(storage, "auth_token"))

\* where useAuth.login / useAuth.logout navigate to
useAuthTarget(op) == IF op = "login" THEN "/dashboard" ELSE "/login"

\* useAuth.login / useAuth.logout after their mutation has resolved: navigate
useAuthNavigate(op, b) == [b EXCEPT !.location = useAuthTarget(op)]

\* mutant: navigate is called whether the mutation resolved or was rejected
useAuthSettleAlways(op, resolved, last) == useAuthTarget(op)

\* the target of the last navigate() after useAuth.login / useAuth.logout has
\* settled: navigate follows the awaited mutation inside the try, the catch
\* has none
useAuthSettle(op, resolved, last) == IF resolved THEN useAuthTarget(op) ELSE last

\* catch (error) { console.error(...); throw error } of useAuth
useAuthCatch(error) == error

\* what the caller of the call is thrown when userApi[op] rejects with error
Rethrown(call, error) ==
  IF call.via \in {"useAuth", "LoginForm"} THEN useAuthCatch(error) ELSE error

\* what the caller's layers do when userApi[op] resolves with value: nothing
\* for a direct call, the hook's onSuccess, and then useAuth's navigation
AfterResolve(call, value, b) ==
  CASE call.via = "direct"  -> b
    [] call.via = "hook"    -> OnSuccess(call.op, call.args, value, b)
    [] call.via \in {"useAuth", "LoginForm"} ->
         useAuthNavigate(call.op, OnSuccess(call.op, call.args, value, b))

(***************************************************************************)
(* ValidationService and LoginForm.                                        *)
(***************************************************************************)
\* the characters of the strings that are typed into the form
Chars(str) ==
  CASE str = ""             -> << >>
    [] str = " "            -> << " " >>
    [] str = "x"            -> << "x" >>
    [] str = "a@b.com"      -> << "a", "@", "b", ".", "c", "o", "m" >>
    [] str = "not-an-email" -> << "n", "o", "t", "-", "a", "n", "-", "e", "m", "a", "i", "l" >>

\* \s
IsSpace(ch) == ch = " "

\* value.trim().length > 0, for a string
isRequired(value) == \E i \in 1..Len(Chars(value)) : ~IsSpace(Chars(value)[i])

\* [^\s@]+ matches cs[from..to]
NoSpaceNoAt(cs, from, to) ==
  from <= to /\ \A i \in from..to : ~IsSpace(cs[i]) /\ cs[i] # "@"

\* /^[^\s@]+@[^\s@]+\.[^\s@]+$/.test(email)
isValidEmail(email) ==
  LET cs == Chars(email)
  IN  \E i, j \in 1..Len(cs) :
        /\ i < j /\ cs[i] = "@" /\ cs[j] = "."
        /\ NoSpaceNoAt(cs, 1, i - 1)
        /\ NoSpaceNoAt(cs, i + 1, j - 1)
        /\ NoSpaceNoAt(cs, j + 1, Len(cs))

\* mutant: the format of the email is not looked at
validateFormNoFormat(data) ==
  [email    |-> IF ~isRequired(data.email) THEN "Email is required" ELSE "",
   password |-> IF ~isRequired(data.password) THEN "Password is required" ELSE ""]

\* LoginForm.validateForm: the field errors, empty when the field is valid
validateForm(data) ==
  [email    |-> IF ~isRequired(data.email) THEN "Email is required"
                ELSE IF ~isValidEmail(data.email) THEN "Invalid email format"
                ELSE "",
   password |-> IF ~isRequired(data.password) THEN "Password is required" ELSE ""]

\* error instanceof Error: true of the Error a mock branch throws and of the
\* transport's AxiosError, false of the object literal {message, status,
\* originalError} the failure handler builds
InstanceOfError(error) == "originalError" \notin DOMAIN error

\* LoginForm.handleSubmit, catch: the server error to show
LoginFormCatch(error) ==
  IF InstanceOfError(error) THEN error.message ELSE "Login failed. Please try again."

(***************************************************************************)
(* useUiStore (ui.store.ts): a zustand store under the persist middleware, *)
(* which writes partialize(state) to localStorage['ui-storage'] after      *)
(* every set and merges what it finds there into the initial state when    *)
(* the store is created.                                                   *)
(***************************************************************************)
Themes == {"light", "dark"}

\* the initial state of the store
UiInitial ==
  [theme |-> "light", isSidebarOpen |-> TRUE, isModalOpen |-> FALSE, modalContent |-> Absent]

\* mutant: the sidebar is persisted too
partializeWithSidebar(state) == [theme |-> state.theme, isSidebarOpen |-> state.isSidebarOpen]

\* partialize: (state) => ({ theme: state.theme })
partialize(state) == [theme |-> state.theme]

\* JSON.stringify of a boolean
BoolJson(b) == IF b THEN "true" ELSE "false"

\* JSON.stringify({ state: partial, version: 0 })
PersistItem(partial) ==
  "{\"state\":{\"theme\":\"" \o partial.theme \o "\""
    \o (IF "isSidebarOpen" \in DOMAIN partial
        THEN ",\"isSidebarOpen\":" \o BoolJson(partial.isSidebarOpen) ELSE "")
    \o "},\"version\":0}"

\* the partial states an item of the store can hold
PersistCandidates ==
  [theme : Themes] \cup [theme : Themes, isSidebarOpen : BOOLEAN]

\* JSON.parse(item).state, or nothing when there is no item or it does not parse
PersistedState(item) ==
  LET hits == {partial \in PersistCandidates : item = Some(PersistItem(partial))}
  IN  IF hits = {} THEN << >> ELSE CHOOSE partial \in hits : TRUE

\* set(partial) under persist: the new state, and the storage after the write
UiSet(state, partial, storage) ==
  LET next == Merge(state, partial)
  IN  [state |-> next,
       localStorage |-> setItem(storage, "ui-storage", PersistItem(partialize(next)))]

\* creation of the store: the persisted state merged into the initial state
hydrate(storage) ==
  UiSet(UiInitial, PersistedState(getItem(storage, "ui-storage")), storage)

(***************************************************************************)
(* The callers' inputs.                                                    *)
(***************************************************************************)
IdInputs == {"2", "does-not-exist"}

CredentialInputs ==
  {[email |-> "a@b.com", password |-> "x"], [email |-> "", password |-> ""],
   [email |-> "a@b.com", password |-> ""], [email |-> "", password |-> "x"]}

\* what is typed into the login form
FormInputs ==
  {[email |-> "a@b.com", password |-> "x"], [email |-> "", password |-> ""],
   [email |-> "not-an-email", password |-> "x"], [email |-> "a@b.com", password |-> " "],
   [email |-> " ", password |-> "x"]}

PatchInputs == {[firstName |-> "Renamed"], [role |-> "ADMIN", lastName |-> "Root"]}

PageSizes == (1..MaxSize) \cup {DefaultPageSize}

\* the arguments of userApi[op] when called directly
DirectInputs(op) ==
  CASE op = "getUserById" -> {<< id >> : id \in IdInputs \cup {"1", "3"}}
    [] op = "getUsers"    -> {<< page, size >> : page \in 0..MaxPage, size \in PageSizes}
    [] op = "login"       -> {<< cr >> : cr \in CredentialInputs}
    [] op = "updateUser"  -> {<< id, data >> : id \in IdInputs, data \in PatchInputs}
    [] op = "deleteUser"  -> {<< id >> : id \in IdInputs}
    [] OTHER -> {<< >>}

\* the arguments the components pass through the hooks
HookInputs(op) ==
  CASE op = "getUserById" -> {<< id >> : id \in IdInputs}
    [] op = "getUsers"    -> {<< 0, DefaultPageSize >>}
    [] op = "login"       -> {<< cr >> : cr \in {[email |-> "a@b.com", password |-> "x"],
                                                 [email |-> "", password |-> ""]}}
    [] op = "updateUser"  -> {<< "2", [firstName |-> "Renamed"] >>}
    [] op = "deleteUser"  -> {<< "2" >>}
    [] OTHER -> {<< >>}

(***************************************************************************)
(* The backing service, as far as the wire contract fixes it: what it may  *)
(* answer to a request.                                                    *)
(***************************************************************************)
BackendUsers ==
  << [id |-> "1", email |-> "one@bff.example", firstName |-> "One",
      lastName |-> "Live", role |-> "USER", createdAt |-> "t1", updatedAt |-> "t1"],
     [id |-> "2", email |-> "two@bff.example", firstName |-> "Two",
      lastName |-> "Live", role |-> "ADMIN", createdAt |-> "t1", updatedAt |-> "t1"] >>

BackendTokens == {"jwt-A", "jwt-B"}

Envelope(data) == [data |-> data]

\* the bodies of a 2xx answer
SuccessBodies(op, args, tokens) ==
  CASE op = "getCurrentUser" -> {Envelope(BackendUsers[1])}
    [] op = "getUserById" ->
         IF find(BackendUsers, args[1]) = Absent THEN {}
         ELSE {Envelope(Get(find(BackendUsers, args[1])))}
    [] op = "getUsers" ->
         {Envelope([content |-> slice(BackendUsers, args[1] * args[2], (args[1] + 1) * args[2]),
                    totalElements |-> Len(BackendUsers),
                    totalPages |-> ceilDiv(Len(BackendUsers), args[2]),
                    size |-> args[2], number |-> args[1]])}
    [] op = "login" ->
         IF args[1].email = "" \/ args[1].password = "" THEN {}
         ELSE {Envelope([user |-> BackendUsers[1], token |-> t]) : t \in tokens}
    [] op = "updateUser" ->
         IF find(BackendUsers, args[1]) = Absent THEN {}
         ELSE {Envelope(Merge(Get(find(BackendUsers, args[1])), args[2]))}
    [] op = "deleteUser" ->
         IF find(BackendUsers, args[1]) = Absent THEN {} ELSE {Envelope(Absent)}
    [] OTHER -> {Envelope(Absent)}

\* JSON bodies of a failure answer: {message?, error?}
Body(message, error) == Some([message |-> message, error |-> error])

AllBodies ==
  {Body(m, e) : m \in {Absent, Some(""), Some("srv-message")},
                e \in {Absent, Some(""), Some("srv-error")}} \cup {Absent}

FewBodies == {Body(Some("srv-message"), Some("srv-error"))}

\* an AxiosError: the failure the transport raises
AxiosError(message, config, response) ==
  [message |-> message, config |-> config, response |-> response]

Response(status, data) == Some([status |-> status, data |-> data])

\* the failures of a request: an answer with a failure status, or none at all
Failures(op, args, config, bodies, messages) ==
     {AxiosError("Request failed with status code 401", Some(config),
                 Response(401, Body(Absent, Some("Unauthorized"))))}
  \cup
     {AxiosError(m, Some(config), Response(500, b)) : m \in messages, b \in bodies}
  \cup
     (IF op \in {"getUserById", "updateUser", "deleteUser"}
         /\ find(BackendUsers, args[1]) = Absent
      THEN {AxiosError("Request failed with status code 404", Some(config),
                       Response(404, Body(Some("User not found"), Absent)))}
      ELSE {})
  \cup
     {AxiosError(m, Some(config), Absent) : m \in messages}

(***************************************************************************)
(* Actions.                                                                *)
(***************************************************************************)
\* the auth event of a settlement, if it is one
AuthEvent(call, resolved, status, last) ==
  IF status = Some(401) THEN "401"
  ELSE IF resolved /\ call.via # "direct" /\ call.op = "login" THEN "login"
  ELSE IF resolved /\ call.via # "direct" /\ call.op = "logout" THEN "logout"
  ELSE last

\* the hooks built on useQuery; the others are built on useMutation
QueryOps == {"getCurrentUser", "getUserById", "getUsers"}

\* queryClient's defaultOptions: retries of a failed query, of a failed mutation
QueriesRetry == 1
MutationsRetry == 0

\* mutant: mutations are retried as queries are
RetryOfQueriesForAll(op) == QueriesRetry

\* the retry option that applies to the hook of op
RetryOf(op) == IF op \in QueryOps THEN QueriesRetry ELSE MutationsRetry

\* the query layer runs the function again after a failure while the failure
\* count does not exceed retry; a direct call of userApi has no query layer
ShouldRetry(call) == call.via # "direct" /\ call.attempt <= RetryOf(call.op)

\* one run of userApi[op](...args): the mock branch starts the simulated
\* delay, the live branch runs the request interceptor and sends the request
Attempt(via, op, args, attempt) ==
  IF UsesMock(op, MOCK_CONFIG)
  THEN [IdleCall EXCEPT !.pc = "delay", !.op = op, !.args = args, !.via = via,
                        !.source = "fixture", !.attempt = attempt]
  ELSE [IdleCall EXCEPT !.pc = "sent", !.op = op, !.args = args, !.via = via,
                        !.source = "transport", !.requests = 1, !.attempt = attempt,
                        !.request = Some(RequestInterceptor(LiveRequest(op, args),
                                                            localStorage))]

\* mutant: a mock branch that is going to fail throws before the delay
StartFailsAtOnce(c, via, op, args) ==
  /\ calls[c].pc \in {"idle", "resolved", "rejected"}
  /\ ~calls[c].retrying
  /\ calls' = [calls EXCEPT ![c] =
       IF UsesMock(op, MOCK_CONFIG)
       THEN IF MockSettlement(op, args).ok
            THEN [IdleCall EXCEPT !.pc = "delay", !.op = op, !.args = args, !.via = via, !.attempt = 1,
                                  !.source = "fixture"]
            ELSE [IdleCall EXCEPT !.pc = "rejected", !.op = op, !.args = args,
                                  !.via = via, !.source = "fixture", !.attempt = 1,
                                  !.error = Some(MockSettlement(op, args).error)]
       ELSE [IdleCall EXCEPT !.pc = "sent", !.op = op, !.args = args, !.via = via, !.attempt = 1,
                             !.source = "transport", !.requests = 1,
                             !.request = Some(RequestInterceptor(LiveRequest(op, args),
                                                                 localStorage))]]
  /\ UNCHANGED << clientVars, env, MOCK_CONFIG, localStorage, location, queryCache, lastAuthEvent, navigated,
                  fixture, mutations >>

\* userApi[op](...args) is called, through its hook or directly: the mock
\* branch starts the simulated delay, the live branch runs the request
\* interceptor and sends the request
Start(c, via, op, args) ==
  /\ calls[c].pc \in {"idle", "resolved", "rejected"}
  /\ ~calls[c].retrying
  /\ calls' = [calls EXCEPT ![c] = Attempt(via, op, args, 1)]
  /\ UNCHANGED << clientVars, env, MOCK_CONFIG, localStorage, location, queryCache, lastAuthEvent, navigated,
                  fixture, mutations >>

\* the retry timer of the query layer fires: the function of the failed
\* query runs again, with a request built from the storage as it is now
Retry(c) ==
  /\ calls[c].pc = "rejected"
  /\ calls[c].retrying
  /\ calls' = [calls EXCEPT ![c] =
       Attempt(calls[c].via, calls[c].op, calls[c].args, calls[c].attempt + 1)]
  /\ UNCHANGED << clientVars, env, MOCK_CONFIG, localStorage, location, queryCache, lastAuthEvent, navigated,
                  fixture, mutations, serverError, errors, formData >>

\* mutant: useLogout clears in onSettled, after a failure as after a success
AfterSettleLogoutAlways(call, resolved, value, b) ==
  IF resolved \/ call.op = "logout" THEN AfterResolve(call, value, b) ELSE b

\* the callbacks of the hooks: each has onSuccess and none has onError or
\* onSettled, so a failure leaves the browser state as the interceptor left it
AfterSettle(call, resolved, value, b) ==
  IF resolved THEN AfterResolve(call, value, b) ELSE b

\* what a settlement leaves: the call's record, the browser state after the
\* hook's callback, the auth history
Settle(c, resolved, value, error, received, response, b) ==
  LET call == calls[c]
      after == AfterSettle(call, resolved, value, b)
  IN  /\ calls' = [calls EXCEPT ![c].pc = IF resolved THEN "resolved" ELSE "rejected",
                                ![c].value = value,
                                ![c].error = error,
                                ![c].received = received,
                                ![c].response = response,
                                ![c].retrying = ~resolved /\ ShouldRetry(call),
                                ![c].removed =
                                  IF ~resolved /\ b.localStorage # localStorage
                                  THEN getItem(localStorage, "auth_token") ELSE Absent,
                                ![c].thrown = IF resolved \/ ShouldRetry(call) THEN Absent
                                              ELSE Some(Rethrown(call, Get(error)))]
      /\ localStorage' = after.localStorage
      /\ location' = after.location
      /\ queryCache' = after.queryCache
      /\ serverError' = IF ~resolved /\ call.via = "LoginForm"
                        THEN LoginFormCatch(Rethrown(call, Get(error))) ELSE serverError
      /\ navigated' = IF call.via \in {"useAuth", "LoginForm"}
                      THEN useAuthSettle(call.op, resolved, navigated) ELSE navigated
      /\ UNCHANGED << clientVars, env, MOCK_CONFIG, errors, formData >>

\* simulateDelay's timer fires: the mock branch settles
DelayElapsed(c) ==
  /\ calls[c].pc = "delay"
  /\ LET s == MockSettlement(calls[c].op, calls[c].args)
     IN  /\ Settle(c, s.ok, IF s.ok THEN s.value ELSE Absent,
                   IF s.ok THEN Absent ELSE Some(s.error), Absent, Absent,
                   Browser(localStorage, location, queryCache))
         /\ lastAuthEvent' = AuthEvent(calls[c], s.ok, Absent, lastAuthEvent)
         /\ fixture' = MockFixtureAfter(calls[c].op, calls[c].args, fixture)
         /\ mutations' = IF s.ok /\ calls[c].op \in {"updateUser", "deleteUser"}
                         THEN mutations \cup {<< calls[c].op, calls[c].args[1] >>}
                         ELSE mutations

\* a 2xx answer arrives: success handler, then userApi returns from it
RespondSuccess(c, tokens) ==
  /\ calls[c].pc = "sent"
  /\ \E body \in SuccessBodies(calls[c].op, calls[c].args, tokens) :
       LET answer == [status |-> 200, data |-> body]
           response == ResponseSuccess(answer)
       IN  /\ Settle(c, TRUE, LiveReturn(calls[c].op, response), Absent, Some(answer),
                     Some(response),
                     Browser(localStorage, location, queryCache))
           /\ lastAuthEvent' = AuthEvent(calls[c], TRUE, Some(200), lastAuthEvent)
           /\ UNCHANGED << fixture, mutations >>

\* mutant: the 401 handler yields after removing the token; the redirect and
\* the rejection are left to a later step
RespondFailureYields(c, bodies, messages) ==
  /\ calls[c].pc = "sent"
  /\ \E error \in Failures(calls[c].op, calls[c].args, Get(calls[c].request), bodies, messages) :
       IF IsUnauthorized(error) /\ calls[c].received = Absent
       THEN /\ calls' = [calls EXCEPT ![c].received = Some(error)]
            /\ localStorage' = removeItem(localStorage, "auth_token")
            /\ UNCHANGED << clientVars, env, MOCK_CONFIG, location, queryCache, lastAuthEvent, navigated,
                            fixture, mutations, serverError, errors, formData >>
       ELSE LET h == ResponseError(error, localStorage, location)
            IN  /\ Settle(c, FALSE, Absent, Some(h.reject), Some(error), Absent,
                          Browser(h.localStorage, h.location, queryCache))
                /\ lastAuthEvent' = AuthEvent(calls[c], FALSE, ErrorStatus(error), lastAuthEvent)
                /\ UNCHANGED << fixture, mutations >>

\* mutant: a failure without an answer is retried once before it is rejected
RespondFailureRetries(c, bodies, messages) ==
  /\ calls[c].pc = "sent"
  /\ \E error \in Failures(calls[c].op, calls[c].args, Get(calls[c].request), bodies, messages) :
       IF error.response = Absent /\ calls[c].requests = 1
       THEN /\ calls' = [calls EXCEPT ![c].requests = 2]
            /\ UNCHANGED << clientVars, env, MOCK_CONFIG, localStorage, location, queryCache,
                            lastAuthEvent, navigated, fixture, mutations, serverError, errors, formData >>
       ELSE LET h == ResponseError(error, localStorage, location)
            IN  /\ Settle(c, FALSE, Absent, Some(h.reject), Some(error), Absent,
                          Browser(h.localStorage, h.location, queryCache))
                /\ lastAuthEvent' = AuthEvent(calls[c], FALSE, ErrorStatus(error), lastAuthEvent)
                /\ UNCHANGED << fixture, mutations >>

\* the transport fails (failure status, network error, timeout): failure handler
RespondFailure(c, bodies, messages) ==
  /\ calls[c].pc = "sent"
  /\ \E error \in Failures(calls[c].op, calls[c].args, Get(calls[c].request), bodies, messages) :
       LET h == ResponseError(error, localStorage, location)
       IN  /\ Settle(c, FALSE, Absent, Some(h.reject), Some(error), Absent,
                     Browser(h.localStorage, h.location, queryCache))
           /\ lastAuthEvent' = AuthEvent(calls[c], FALSE, ErrorStatus(error), lastAuthEvent)
           /\ UNCHANGED << fixture, mutations >>

InitOf(envValues, passwords) ==
  /\ env \in envValues
  /\ MOCK_CONFIG = MockConfigOf(env)
  /\ localStorage = hydrate([k \in StorageKeys |-> Absent]).localStorage
  /\ ui = hydrate([k \in StorageKeys |-> Absent]).state
  /\ lastUiAction = "none"
  /\ password \in passwords
  /\ strength = Absent
  /\ storageOp = [op |-> "none", key |-> "", value |-> [type |-> "null", value |-> ""]]
  /\ location = "/dashboard"
  /\ queryCache = << >>
  /\ calls = [c \in CallIds |-> IdleCall]
  /\ lastAuthEvent = "none"
  /\ fixture = mockUsers
  /\ mutations = {}
  /\ serverError = ""
  /\ errors = [email |-> "", password |-> ""]
  /\ formData = [email |-> "", password |-> ""]
  /\ navigated = "none"

\* the application with nothing typed into a password field
InitWith(envValues) == InitOf(envValues, {<< >>})

\* the default build (VITE_MOCK_MODE unset) and the build with VITE_MOCK_MODE=true
Init == InitWith({Absent, Some("true")})

\* the components call through the hooks, concurrently
CallHook(c) ==
  /\ \E op \in Ops : \E args \in HookInputs(op) : Start(c, "hook", op, args)
  /\ UNCHANGED << serverError, errors, formData >>

Next ==
  \E c \in CallIds :
    \/ CallHook(c)
    \/ Retry(c)
    \/ DelayElapsed(c)
    \/ RespondSuccess(c, {"jwt-A"})
    \/ RespondFailure(c, FewBodies, {"Network Error"})

Spec == Init /\ [][Next]_vars

\* a component logs in or out through useAuth
CallUseAuth(c) ==
  /\ \E op \in {"login", "logout"} : \E args \in HookInputs(op) : Start(c, "useAuth", op, args)
  /\ UNCHANGED << serverError, errors, formData >>

\* LoginForm: whether its login is pending (isLoggingIn)
isLoggingIn ==
  \E c \in CallIds : calls[c].via = "LoginForm" /\ calls[c].pc \in {"delay", "sent"}

\* LoginForm, onChange of a field: the fields are disabled while logging in
ChangeForm ==
  /\ ~isLoggingIn
  /\ formData' \in FormInputs
  /\ UNCHANGED << clientVars, env, MOCK_CONFIG, localStorage, location, queryCache, calls,
                  lastAuthEvent, navigated, fixture, mutations, serverError, errors >>

\* LoginForm.handleSubmit: the server error is cleared, the form is validated,
\* and when it is valid login(formData) of useAuth is called
Submit(c) ==
  LET newErrors == validateForm(formData)
  IN  /\ calls[c].pc \in {"idle", "resolved", "rejected"}
      /\ serverError' = ""
      /\ errors' = newErrors
      /\ formData' = formData
      /\ IF newErrors.email = "" /\ newErrors.password = ""
         THEN Start(c, "LoginForm", "login", << formData >>)
         ELSE UNCHANGED << clientVars, env, MOCK_CONFIG, localStorage, location, queryCache, calls,
                           lastAuthEvent, navigated, fixture, mutations >>

\* the login form alone: typing, submitting, and the answers to its login
NextForm ==
  \/ ChangeForm
  \/ Submit(1)
  \/ DelayElapsed(1)
  \/ RespondSuccess(1, BackendTokens)
  \/ RespondFailure(1, AllBodies, {"", "Network Error"})

SpecForm == Init /\ [][NextForm]_vars

\* the components call through the hooks and useAuth, one call at a time
NextSeq ==
  \/ CallHook(1)
  \/ CallUseAuth(1)
  \/ Retry(1)
  \/ DelayElapsed(1)
  \/ RespondSuccess(1, BackendTokens)
  \/ RespondFailure(1, FewBodies, {"Network Error"})

SpecSeq == Init /\ [][NextSeq]_vars

\* the same, with the timer of simulateDelay firing in the end (setTimeout)
SpecSeqFair == SpecSeq /\ WF_vars(DelayElapsed(1))

\* what is put into the modal: a node, or null
ModalContents == {Absent, Some("A"), Some("B")}

\* an action of the store: set(partial), which persist follows with its write
UiAct(name, partial) ==
  LET after == UiSet(ui, partial, localStorage)
  IN  /\ ui' = after.state
      /\ localStorage' = after.localStorage
      /\ lastUiAction' = name
      /\ UNCHANGED << env, MOCK_CONFIG, location, queryCache, calls, lastAuthEvent,
                      navigated, fixture, serverError, errors, formData, mutations,
                      password, strength, storageOp >>

setTheme == \E theme \in Themes : UiAct("setTheme", [theme |-> theme])

toggleTheme ==
  UiAct("toggleTheme", [theme |-> IF ui.theme = "light" THEN "dark" ELSE "light"])

setSidebarOpen == \E isOpen \in BOOLEAN : UiAct("setSidebarOpen", [isSidebarOpen |-> isOpen])

toggleSidebar == UiAct("toggleSidebar", [isSidebarOpen |-> ~ui.isSidebarOpen])

openModal ==
  \E content \in ModalContents :
    UiAct("openModal", [isModalOpen |-> TRUE, modalContent |-> content])

\* mutant: closing the modal leaves its content
closeModalKeepsContent == UiAct("closeModal", [isModalOpen |-> FALSE])

closeModal == UiAct("closeModal", [isModalOpen |-> FALSE, modalContent |-> Absent])

\* the page is loaded again: what is in memory is rebuilt (the store is
\* created anew from what persist stored), localStorage stays
Reload ==
  /\ ui' = hydrate(localStorage).state
  /\ localStorage' = hydrate(localStorage).localStorage
  /\ lastUiAction' = "reload"
  /\ queryCache' = << >>
  /\ calls' = [c \in CallIds |-> IdleCall]
  /\ fixture' = mockUsers
  /\ serverError' = ""
  /\ errors' = [email |-> "", password |-> ""]
  /\ formData' = [email |-> "", password |-> ""]
  /\ UNCHANGED << env, MOCK_CONFIG, location, lastAuthEvent, navigated, mutations,
                  password, strength, storageOp >>

\* the UI store alone: its actions and the reload of the page
NextUi ==
  \/ setTheme
  \/ toggleTheme
  \/ setSidebarOpen
  \/ toggleSidebar
  \/ openModal
  \/ closeModal
  \/ Reload

SpecUi == Init /\ [][NextUi]_vars

\* userApi is called directly, one call at a time, over the wide inputs
CallDirect(c) ==
  /\ \E op \in Ops : \E args \in DirectInputs(op) : Start(c, "direct", op, args)
  /\ UNCHANGED << serverError, errors, formData >>

NextApi ==
  \/ CallDirect(1)
  \/ DelayElapsed(1)
  \/ RespondSuccess(1, BackendTokens)
  \/ RespondFailure(1, AllBodies, {"", "Network Error", "timeout of 30000ms exceeded"})

InitApi == InitWith(EnvValues)

SpecApi == InitApi /\ [][NextApi]_vars

(***************************************************************************)
(* ValidationService: the password rules.  A password is the sequence of   *)
(* its characters.                                                         *)
(***************************************************************************)
\* the character classes [A-Z], [a-z] and [0-9]
UpperCase == {"A", "B", "C", "D", "E", "F", "G", "H", "I", "J", "K", "L", "M",
              "N", "O", "P", "Q", "R", "S", "T", "U", "V", "W", "X", "Y", "Z"}
LowerCase == {"a", "b", "c", "d", "e", "f", "g", "h", "i", "j", "k", "l", "m",
              "n", "o", "p", "q", "r", "s", "t", "u", "v", "w", "x", "y", "z"}
Digits == {"0", "1", "2", "3", "4", "5", "6", "7", "8", "9"}

\* /[class]/.test(str): the scan for the first character of the class
RECURSIVE Test(_, _)
Test(class, str) ==
  IF str = << >> THEN FALSE
  ELSE IF Head(str) \in class THEN TRUE
  ELSE Test(class, Tail(str))

isValidPassword(str) ==
  LET minLength == Len(str) >= 8
      hasUppercase == Test(UpperCase, str)
      hasLowercase == Test(LowerCase, str)
      hasNumber == Test(Digits, str)
  IN  minLength /\ hasUppercase /\ hasLowercase /\ hasNumber

\* mutant: the uppercase rule is looked at before the length
getPasswordStrengthMessageUpperFirst(str) ==
  IF ~Test(UpperCase, str) THEN "Password must contain an uppercase letter"
  ELSE IF Len(str) < 8 THEN "Password must be at least 8 characters"
  ELSE IF ~Test(LowerCase, str) THEN "Password must contain a lowercase letter"
  ELSE IF ~Test(Digits, str) THEN "Password must contain a number"
  ELSE "Password is strong"

getPasswordStrengthMessage(str) ==
  IF Len(str) < 8 THEN "Password must be at least 8 characters"
  ELSE IF ~Test(UpperCase, str) THEN "Password must contain an uppercase letter"
  ELSE IF ~Test(LowerCase, str) THEN "Password must contain a lowercase letter"
  ELSE IF ~Test(Digits, str) THEN "Password must contain a number"
  ELSE "Password is strong"

\* the passwords looked at: up to MaxFill characters of no class, then up to
\* MaxTail characters that are an uppercase letter, a lowercase letter, a
\* digit or a character of no class
MaxFill == 7
MaxTail == 3
Fill(n) == [i \in 1..n |-> "-"]
PasswordChars == {"Q", "a", "7", "_"}
Passwords ==
  {Fill(n) \o tail : n \in 0..MaxFill,
                     tail \in UNION {[1..k -> PasswordChars] : k \in 0..MaxTail}}

\* a component asks for both answers about the password typed
CheckPassword ==
  /\ strength = Absent
  /\ strength' = Some([valid |-> isValidPassword(password),
                       message |-> getPasswordStrengthMessage(password)])
  /\ UNCHANGED << env, MOCK_CONFIG, localStorage, location, queryCache, calls,
                  lastAuthEvent, fixture, serverError, errors, formData, navigated,
                  ui, lastUiAction, password, mutations, storageOp >>

NextPassword == CheckPassword

InitPassword == InitOf({Absent}, Passwords)

SpecPassword == InitPassword /\ [][NextPassword]_vars

(***************************************************************************)
(* LocalStorageService (user.types.ts).  A JavaScript value is a record    *)
(* [type, value]: value is the text of a string, the numeral of a number,  *)
(* the JSON text of an object.                                             *)
(***************************************************************************)
NullValue == [type |-> "null", value |-> ""]
UndefinedValue == [type |-> "undefined", value |-> ""]
Str(text) == [type |-> "string", value |-> text]
Num(numeral) == [type |-> "number", value |-> numeral]
Bool(text) == [type |-> "boolean", value |-> text]
Obj(json) == [type |-> "object", value |-> json]

\* JSON.stringify(value): the JSON text, or undefined for undefined
JSONstringify(value) ==
  CASE value.type = "undefined" -> Absent
    [] value.type = "null"      -> Some("null")
    [] value.type = "string"    -> Some("\"" \o value.value \o "\"")
    [] OTHER                    -> Some(value.value)

\* String(x), which setItem applies to its second argument
StringOf(o) == IF o = Absent THEN "undefined" ELSE Get(o)

\* the values the JSON texts of the model stand for
JsonValues ==
  {NullValue, Str(""), Str("x"), Num("0"), Num("1"), Bool("true"), Bool("false")}
    \cup {Obj(PersistItem(partial)) : partial \in PersistCandidates}

\* JSON.parse(text): the value, or a SyntaxError thrown
JSONparse(text) ==
  LET hits == {value \in JsonValues : JSONstringify(value) = Some(text)}
  IN  IF hits = {} THEN [ok |-> FALSE, value |-> NullValue]
      ELSE [ok |-> TRUE, value |-> CHOOSE value \in hits : TRUE]

\* get(key): null for no item and for the empty item, the parsed item, or
\* null when the parse throws
get(storage, key) ==
  LET item == getItem(storage, key)
  IN  IF ~Truthy(item) THEN NullValue
      ELSE IF JSONparse(Get(item)).ok THEN JSONparse(Get(item)).value
      ELSE NullValue

set(storage, key, value) == setItem(storage, key, StringOf(JSONstringify(value)))

remove(storage, key) == removeItem(storage, key)

clear(storage) == [k \in DOMAIN storage |-> Absent]

has(storage, key) == getItem(storage, key) # Absent

\* the values handed to set
SetInputs == {NullValue, UndefinedValue, Str(""), Str("x"), Num("1"), Bool("false")}

\* an operation of the service: the browser's storage after it
ServiceOp(op, key, value, storage) ==
  /\ localStorage' = storage
  /\ storageOp' = [op |-> op, key |-> key, value |-> value]
  /\ UNCHANGED << env, MOCK_CONFIG, location, queryCache, calls, lastAuthEvent,
                  navigated, fixture, serverError, errors, formData, mutations,
                  ui, lastUiAction, password, strength >>

ServiceSet ==
  \E key \in StorageKeys : \E value \in SetInputs :
    ServiceOp("set", key, value, set(localStorage, key, value))

ServiceRemove ==
  \E key \in StorageKeys : ServiceOp("remove", key, NullValue, remove(localStorage, key))

ServiceClear == ServiceOp("clear", "", NullValue, clear(localStorage))

NextStorage ==
  \/ ServiceSet
  \/ ServiceRemove
  \/ ServiceClear

SpecStorage == Init /\ [][NextStorage]_vars

(***************************************************************************)
(* Properties.  Helpers first.                                             *)
(***************************************************************************)
Token == localStorage["auth_token"]

Live(c) == calls[c].source = "transport"
Mock(c) == calls[c].source = "fixture"
Rejected(c) == calls[c].pc = "rejected"
Resolved(c) == calls[c].pc = "resolved"

\* what the transport handed to the interceptors is a failure (an AxiosError)
GotFailure(call) ==
  call.received # Absent /\ "response" \in DOMAIN Get(call.received)

\* the status of the failed answer, if there was an answer
FailureStatus(call) == ErrorStatus(Get(call.received))

\* call c settles in this step
Settles(c) == calls[c].pc \in {"delay", "sent"} /\ calls'[c].pc \in {"resolved", "rejected"}

\* the Authorization header of the request of a call
AuthorizationOf(call) == Get(Get(call.request).headers).Authorization

\* C1: every request sent through the Transport Client carries
\* Authorization = 'Bearer ' + token when a token is stored at the time the
\* request interceptor runs, and no Authorization header when none is stored;
\* in both cases the request is sent.
C1_BearerHeader ==
  [][\A c \in CallIds :
       (~MOCK_CONFIG.enabled /\ calls'[c] # calls[c] /\ calls[c].pc \notin {"delay", "sent"})
       => /\ calls'[c].pc = "sent"
          /\ calls'[c].request # Absent
          /\ IF Token # Absent
             THEN AuthorizationOf(calls'[c]) = Some("Bearer " \o Get(Token))
             ELSE AuthorizationOf(calls'[c]) = Absent]_vars

\* a request is in flight with the bearer header of the stored token
C1_Witness ==
  \E c \in CallIds :
    /\ calls[c].pc = "sent"
    /\ Token = Some("jwt-A")
    /\ AuthorizationOf(calls[c]) = Some("Bearer jwt-A")

\* C2: when a failed response with status 401 is handled, the stored token is
\* removed, the location becomes '/login', and the call is rejected.
C2_Unauthorized ==
  [][\A c \in CallIds :
       (Settles(c) /\ GotFailure(calls'[c]) /\ FailureStatus(calls'[c]) = Some(401))
       => /\ Token' = Absent
          /\ location' = "/login"
          /\ calls'[c].pc = "rejected"]_vars

\* a call that carried a token was rejected with 401, and the token is gone
C2_Witness ==
  \E c \in CallIds :
    /\ Rejected(c) /\ GotFailure(calls[c]) /\ FailureStatus(calls[c]) = Some(401)
    /\ AuthorizationOf(calls[c]) = Some("Bearer jwt-A")
    /\ Token = Absent /\ location = "/login"

\* a field of the failure is present: it is there and not the empty string
\* (the reading under which the claim's last tier, the fallback, can happen:
\* an error always has a message, possibly empty)
Present(o) == o # Absent /\ Get(o) # ""

\* the message the priority order of C3 selects
C3_Expected(error) ==
  LET m == ErrorBodyField(error, "message")
      e == ErrorBodyField(error, "error")
  IN  IF Present(m) THEN Get(m)
      ELSE IF Present(e) THEN Get(e)
      ELSE IF error.message # "" THEN error.message
      ELSE "An unexpected error occurred"

\* C3: the message of the rejection of a non-401 failure is the body's message
\* field if present, else the body's error field if present, else the transport
\* error's message, else 'An unexpected error occurred'.
C3_MessagePriority ==
  \A c \in CallIds :
    (Rejected(c) /\ GotFailure(calls[c]) /\ FailureStatus(calls[c]) # Some(401))
    => Get(calls[c].error).message = C3_Expected(Get(calls[c].received))

\* a rejection whose message came from the body's error field, the body's
\* message field being there but empty
C3_Witness ==
  \E c \in CallIds :
    /\ Rejected(c) /\ GotFailure(calls[c])
    /\ ErrorBodyField(Get(calls[c].received), "message") = Some("")
    /\ ErrorBodyField(Get(calls[c].received), "error") = Some("srv-error")
    /\ Get(calls[c].received).message = "Network Error"
    /\ Get(calls[c].error).message = "srv-error"

\* the rejection of call is the Normalized Error of the failure it received
IsNormalized(call) ==
  /\ DOMAIN Get(call.error) = {"message", "status", "originalError"}
  /\ Get(call.error).originalError = Get(call.received)
  /\ Get(call.error).status = FailureStatus(call)

C5_TokenLifecycle ==
  /\ [](Token # Absent <=> lastAuthEvent = "login")
  /\ [][Token' # Token =>
          \E c \in CallIds :
            /\ Settles(c)
            /\ \/ /\ calls[c].op = "login" /\ calls'[c].pc = "resolved"
                  /\ Token' = Some(Get(calls'[c].value).token)
               \/ /\ calls[c].op = "logout" /\ calls'[c].pc = "resolved"
                  /\ Token' = Absent
               \/ /\ GotFailure(calls'[c]) /\ FailureStatus(calls'[c]) = Some(401)
                  /\ Token' = Absent]_vars

\* a token is stored again after a 401 answer had deleted one
C5_Witness ==
  /\ Token = Some("jwt-A")
  /\ \E c \in CallIds :
       /\ Rejected(c) /\ GotFailure(calls[c]) /\ FailureStatus(calls[c]) = Some(401)
       /\ AuthorizationOf(calls[c]) = Some("Bearer jwt-A")
  /\ \E c \in CallIds : Resolved(c) /\ calls[c].op = "login"

\* C6: the mock flag never changes; while it is enabled no call reaches the
\* Transport Client (no request, no answer), and while it is disabled every
\* call goes through the Transport Client and returns what the answer holds,
\* never a fixture.
C6_ModeFixed ==
  /\ [][MOCK_CONFIG' = MOCK_CONFIG /\ env' = env]_vars
  /\ [](\A c \in CallIds :
          calls[c].pc # "idle" =>
            IF MOCK_CONFIG.enabled
            THEN /\ calls[c].pc # "sent"
                 /\ calls[c].request = Absent /\ calls[c].received = Absent
            ELSE /\ calls[c].pc # "delay"
                 /\ calls[c].request # Absent
                 /\ Settled(c) => calls[c].received # Absent
                 /\ Resolved(c) =>
                      calls[c].value = LiveReturn(calls[c].op, Get(calls[c].received)))

\* with the flag enabled, a login has resolved from the fixture without a request
C6_Witness ==
  /\ MOCK_CONFIG.enabled
  /\ Token = Some("mock-jwt-token-12345")
  /\ \E c \in CallIds :
       /\ Resolved(c) /\ calls[c].op = "login"
       /\ calls[c].request = Absent /\ calls[c].received = Absent

\* C7: in mock mode getUsers(page, size) resolves with the fixture's records
\* from offset page*size on, at most size of them, totalElements = the number
\* of fixture records (3), totalPages = ceil(totalElements/size), size and
\* number = page; getUsers(0, 10) gives 3 records, 1 page, number 0.
C7_MockPaging ==
  \A c \in CallIds :
    (Mock(c) /\ Settled(c) /\ calls[c].op = "getUsers")
    => LET page == calls[c].args[1]
           size == calls[c].args[2]
           r == Get(calls[c].value)
           rest == Len(mockUsers) - page * size
       IN  /\ Resolved(c)
           /\ Len(mockUsers) = 3
           /\ Len(r.content) = (IF rest < 0 THEN 0 ELSE IF rest < size THEN rest ELSE size)
           /\ \A i \in 1..Len(r.content) : r.content[i] = mockUsers[page * size + i]
           /\ r.totalElements = 3
           /\ r.totalPages * size >= 3 /\ (r.totalPages - 1) * size < 3
           /\ r.size = size /\ r.number = page
           /\ (page = 0 /\ size = 10)
              => (Len(r.content) = 3 /\ r.totalPages = 1 /\ r.number = 0)

\* getUsers(0, 10) has resolved in mock mode
C7_Witness ==
  \E c \in CallIds :
    /\ Mock(c) /\ Resolved(c) /\ calls[c].op = "getUsers" /\ calls[c].args = << 0, 10 >>
    /\ Len(Get(calls[c].value).content) = 3

\* C8: getUserById(id) resolves with the record whose id is id when there is
\* one and is rejected when there is none: in mock mode with 'User not found',
\* in live mode with the backing service's not-found answer (status 404).
C8_GetUserById ==
  \A c \in CallIds :
    (Settled(c) /\ calls[c].op = "getUserById")
    => LET id == calls[c].args[1]
           users == IF Mock(c) THEN mockUsers ELSE BackendUsers
           known == \E i \in 1..Len(users) : users[i].id = id
       IN  /\ Resolved(c) =>
                /\ known
                /\ calls[c].value # Absent
                /\ Get(calls[c].value).id = id
                /\ \E i \in 1..Len(users) : users[i] = Get(calls[c].value)
           /\ ~known => Rejected(c)
           /\ (Mock(c) /\ known) => Resolved(c)
           /\ (Mock(c) /\ Rejected(c)) => Get(calls[c].error).message = "User not found"
           /\ (Live(c) /\ Rejected(c) /\ FailureStatus(calls[c]) = Some(404))
              => /\ Get(calls[c].error).status = Some(404)
                 /\ Get(calls[c].error).message = "User not found"

\* getUserById('does-not-exist') was rejected with 'User not found' in mock mode
C8_Witness ==
  \E c \in CallIds :
    /\ Mock(c) /\ Rejected(c) /\ calls[c].op = "getUserById"
    /\ calls[c].args = << "does-not-exist" >>
    /\ Get(calls[c].error).message = "User not found"

\* C9: in mock mode login resolves with the fixed payload {user, token} when
\* email and password are both non-empty and is rejected with 'Invalid
\* credentials' when either is empty.
C9_MockLogin ==
  \A c \in CallIds :
    (Mock(c) /\ Settled(c) /\ calls[c].op = "login")
    => LET cr == calls[c].args[1]
       IN  IF cr.email # "" /\ cr.password # ""
           THEN /\ Resolved(c)
                /\ calls[c].value =
                     Some([user |-> mockUsers[1], token |-> "mock-jwt-token-12345"])
           ELSE /\ Rejected(c)
                /\ Get(calls[c].error).message = "Invalid credentials"

\* a mock login with an empty password was rejected
C9_Witness ==
  \E c \in CallIds :
    /\ Mock(c) /\ Rejected(c) /\ calls[c].op = "login"
    /\ calls[c].args[1] = [email |-> "a@b.com", password |-> ""]

\* C10: in mock mode a logout never fails, it leaves the token absent, and a
\* further logout would leave the state it left as it is.
C10_LogoutIdempotent ==
  /\ [](\A c \in CallIds :
          (Mock(c) /\ Settled(c) /\ calls[c].op = "logout") => Resolved(c))
  /\ [][\A c \in CallIds :
          (MOCK_CONFIG.enabled /\ Settles(c) /\ calls[c].op = "logout")
          => /\ Token' = Absent
             /\ calls'[c].pc = "resolved"
             /\ LET after == Browser(localStorage', location', queryCache')
                IN  OnSuccess("logout", << >>, UndefinedValue, after) = after]_vars

\* every call slot holds a logout that resolved in mock mode, and no token is stored
C10_Witness ==
  /\ \A c \in CallIds : Mock(c) /\ Resolved(c) /\ calls[c].op = "logout"
  /\ lastAuthEvent = "logout"
  /\ Token = Absent

\* the fixture record with this id, if there is one
FixtureRecord(id) == find(mockUsers, id)

\* C11: in mock mode updateUser(id, patch) resolves with the fixture record of
\* that id in which every field of patch has the patch's value and every other
\* field the record's, and is rejected with 'User not found' when no fixture
\* record has that id.
C11_MockUpdate ==
  \A c \in CallIds :
    (Mock(c) /\ Settled(c) /\ calls[c].op = "updateUser")
    => LET id == calls[c].args[1]
           patch == calls[c].args[2]
           record == FixtureRecord(id)
       IN  IF record # Absent
           THEN /\ Resolved(c)
                /\ calls[c].value # Absent
                /\ LET r == Get(calls[c].value)
                   IN  /\ DOMAIN r = DOMAIN Get(record) \cup DOMAIN patch
                       /\ \A f \in DOMAIN patch : r[f] = patch[f]
                       /\ \A f \in DOMAIN Get(record) \ DOMAIN patch : r[f] = Get(record)[f]
           ELSE /\ Rejected(c)
                /\ Get(calls[c].error).message = "User not found"

\* a mock updateUser of record '2' has resolved with two fields patched and
\* the others kept
C11_Witness ==
  \E c \in CallIds :
    /\ Mock(c) /\ Resolved(c) /\ calls[c].op = "updateUser"
    /\ calls[c].args = << "2", [role |-> "ADMIN", lastName |-> "Root"] >>
    /\ Get(calls[c].value).role = "ADMIN"
    /\ Get(calls[c].value).lastName = "Root"
    /\ Get(calls[c].value).email = mockUsers[2].email
    /\ mockUsers[2].lastName # "Root"

\* C12: in mock mode the fixture list is never changed: whatever mock
\* updateUser and deleteUser calls (and other mock operations) came before,
\* getUserById and getUsers return the records of the initial fixture, so a
\* deleted id is still found and an updated record is returned unpatched.
C12_FixtureUnchanged ==
  /\ fixture = mockUsers
  /\ \A c \in CallIds :
       (Mock(c) /\ Settled(c) /\ calls[c].op = "getUserById")
       => IF FixtureRecord(calls[c].args[1]) # Absent
          THEN Resolved(c) /\ calls[c].value = FixtureRecord(calls[c].args[1])
          ELSE Rejected(c)
  /\ \A c \in CallIds :
       (Mock(c) /\ Settled(c) /\ calls[c].op = "getUsers")
       => /\ Resolved(c)
          /\ Get(calls[c].value).totalElements = Len(mockUsers)
          /\ \A i \in 1..Len(Get(calls[c].value).content) :
               Get(calls[c].value).content[i]
                 = mockUsers[calls[c].args[1] * calls[c].args[2] + i]
          /\ calls[c].args = << 0, DefaultPageSize >>
             => Get(calls[c].value).content = mockUsers

\* record '2' was updated and deleted by mock calls that resolved, and a later
\* getUserById('2') resolved with the initial record
C12_Witness ==
  /\ << "updateUser", "2" >> \in mutations
  /\ << "deleteUser", "2" >> \in mutations
  /\ calls[1].op = "getUserById" /\ calls[1].args = << "2" >>
  /\ Mock(1) /\ Resolved(1)
  /\ calls[1].value = Some(mockUsers[2])

\* C13: every mock operation, ending in success or in failure, settles only
\* after its simulated delay: a mock call that starts is pending on the delay,
\* it resolves or rejects only in the step in which its delay elapses, and a
\* mock call pending on its delay settles in the end.
C13_SettlesAfterDelay ==
  /\ [][\A c \in CallIds :
          /\ (MOCK_CONFIG.enabled /\ calls'[c] # calls[c]
                /\ calls[c].pc \notin {"delay", "sent"})
             => calls'[c].pc = "delay"
          /\ (calls'[c].source = "fixture" /\ calls'[c] # calls[c]
                /\ calls'[c].pc \in {"resolved", "rejected"})
             => /\ calls[c].pc = "delay"
                /\ calls'[c].op = calls[c].op /\ calls'[c].args = calls[c].args]_vars
  /\ \A c \in CallIds :
       \A op \in Ops :
         (calls[c].pc = "delay" /\ calls[c].op = op)
           ~> (Settled(c) /\ Mock(c) /\ calls[c].op = op)

\* a mock login with an empty password was rejected, after its delay
C13_Witness ==
  \E c \in CallIds :
    /\ Mock(c) /\ Rejected(c) /\ calls[c].op = "login"
    /\ Get(calls[c].error).message = "Invalid credentials"
    /\ lastAuthEvent = "none"

\* C14: the Transport Client never retries and never recovers locally: a call
\* through it has sent exactly one request; the step that handles a failed
\* answer rejects the call with an error, sends nothing again, and changes
\* nothing else, but for a 401 answer the removal of the token and the
\* redirect to '/login'.
C14_NoRetry ==
  /\ [](\A c \in CallIds :
          /\ Live(c) => calls[c].requests = 1
          /\ (Live(c) /\ Settled(c) /\ GotFailure(calls[c]))
             => (Rejected(c) /\ calls[c].error # Absent /\ calls[c].value = Absent))
  /\ [][\A c \in CallIds :
          (calls[c].pc = "sent" /\ calls'[c] # calls[c])
          => /\ Settled(c)'
             /\ calls'[c].request = calls[c].request
             /\ GotFailure(calls'[c])
                => /\ calls'[c].pc = "rejected"
                   /\ queryCache' = queryCache
                   /\ fixture' = fixture
                   /\ \A d \in CallIds \ {c} : calls'[d] = calls[d]
                   /\ IF FailureStatus(calls'[c]) = Some(401)
                      THEN /\ localStorage' = removeItem(localStorage, "auth_token")
                           /\ location' = "/login"
                      ELSE /\ localStorage' = localStorage
                           /\ location' = location]_vars

\* a call that carried the token was rejected for a 500 answer after one
\* request, and the token is still stored
C14_Witness ==
  \E c \in CallIds :
    /\ Rejected(c) /\ GotFailure(calls[c]) /\ FailureStatus(calls[c]) = Some(500)
    /\ calls[c].requests = 1
    /\ AuthorizationOf(calls[c]) = Some("Bearer jwt-A")
    /\ Token = Some("jwt-A")
    /\ location = "/dashboard"

\* C15: on the success path the response interceptor returns the very response
\* it received, status and body unchanged, and changes no stored state: the
\* token and the location after the step are those the caller's own success
\* callback leaves from the ones before, and are the ones before for an
\* operation other than login and logout.
C15_SuccessPassThrough ==
  [][\A c \in CallIds :
       (calls[c].pc = "sent" /\ calls'[c].pc = "resolved")
       => /\ calls'[c].received # Absent
          /\ calls'[c].response = calls'[c].received
          /\ calls[c].via = "hook"
             => Browser(localStorage', location', queryCache')
                  = OnSuccess(calls[c].op, calls[c].args, calls'[c].value,
                              Browser(localStorage, location, queryCache))
          /\ calls[c].op \notin {"login", "logout"}
             => (localStorage' = localStorage /\ location' = location)]_vars

\* getCurrentUser has resolved from a 200 answer handed on as received, the
\* token still stored
C15_Witness ==
  \E c \in CallIds :
    /\ Live(c) /\ Resolved(c) /\ calls[c].op = "getCurrentUser"
    /\ Get(calls[c].response).status = 200
    /\ Get(calls[c].response).data = Get(calls[c].received).data
    /\ Token = Some("jwt-A")
    /\ AuthorizationOf(calls[c]) = Some("Bearer jwt-A")

\* C16: in live mode an operation that returns a value returns the data field
\* of the envelope in the body of the response, as it is (getCurrentUser gets
\* /users/me and returns response.data.data); logout and deleteUser return
\* no value.
C16_LiveUnwrap ==
  \A c \in CallIds :
    (Live(c) /\ Resolved(c))
    => /\ calls[c].response # Absent
       /\ IF calls[c].op \in {"logout", "deleteUser"}
          THEN calls[c].value = Absent
          ELSE calls[c].value = Some(Get(calls[c].response).data.data)
       /\ calls[c].op = "getCurrentUser"
          => /\ Get(calls[c].request).method = "get"
             /\ Get(calls[c].request).url = "/users/me"

\* a live login has resolved with the user and the token of the envelope
C16_Witness ==
  \E c \in CallIds :
    /\ Live(c) /\ Resolved(c) /\ calls[c].op = "login"
    /\ Get(calls[c].response).data.data.token = "jwt-B"
    /\ Get(calls[c].value) = [user |-> BackendUsers[1], token |-> "jwt-B"]

\* C17: when useAuth().login(credentials) resolves, the returned token is
\* stored under 'auth_token', the current-user cache holds the returned user
\* and isAuthenticated is true; isAuthenticated is true only when there are
\* both a current user and a stored token.
C17_LoginAuthenticates ==
  /\ [][\A c \in CallIds :
          (calls[c].via = "useAuth" /\ calls[c].op = "login"
            /\ Settles(c) /\ calls'[c].pc = "resolved")
          => /\ calls'[c].value # Absent
             /\ getItem(localStorage', "auth_token") = Some(Get(calls'[c].value).token)
             /\ currentUser(queryCache') = Some(Get(calls'[c].value).user)
             /\ isAuthenticated(queryCache', localStorage')]_vars
  /\ [](isAuthenticated(queryCache, localStorage)
          => (currentUser(queryCache) # Absent /\ Token # Absent))

\* a live login through useAuth has resolved: the token of the answer is
\* stored, its user is the current user, and isAuthenticated holds
C17_Witness ==
  \E c \in CallIds :
    /\ Live(c) /\ Resolved(c) /\ calls[c].via = "useAuth" /\ calls[c].op = "login"
    /\ Get(calls[c].value).token = "jwt-B"
    /\ Token = Some("jwt-B")
    /\ currentUser(queryCache) = Some(BackendUsers[1])
    /\ isAuthenticated(queryCache, localStorage)
    /\ location = "/dashboard"

\* C18 as claimed: with no VITE_MOCK_MODE value supplied the template runs in
\* mock mode: the flag is enabled, every operation is served from the
\* fixtures and no request is made.
C18_DefaultIsMock ==
  env = Absent
  => /\ MOCK_CONFIG.enabled
     /\ \A c \in CallIds :
          calls[c].pc # "idle" => (Mock(c) /\ calls[c].request = Absent)

\* C19: the failure interceptor of a call runs atomically: with several calls
\* in flight, the step that handles a 401 answer removes the token, redirects
\* and rejects the call, and no other call moves in it; no state shows a 401
\* answer half handled; and a request sent in any step carries the token that
\* is stored in the state it is sent from, never one a 401 handling has cleared.
C19_AtomicFailureHandler ==
  /\ [](\A c \in CallIds :
          (GotFailure(calls[c]) /\ FailureStatus(calls[c]) = Some(401))
          => (Rejected(c) /\ calls[c].error = calls[c].received))
  /\ [](lastAuthEvent = "401" => (Token = Absent /\ location = "/login"))
  /\ [][\A c \in CallIds :
          /\ (Settles(c) /\ GotFailure(calls'[c]) /\ FailureStatus(calls'[c]) = Some(401))
             => /\ Token' = Absent /\ location' = "/login" /\ calls'[c].pc = "rejected"
                /\ \A d \in CallIds \ {c} : calls'[d] = calls[d]
          /\ (calls'[c].pc = "sent" /\ calls[c].pc # "sent")
             => /\ AuthorizationOf(calls'[c])
                     = (IF Token = Absent THEN Absent ELSE Some("Bearer " \o Get(Token)))
                /\ lastAuthEvent = "401" => AuthorizationOf(calls'[c]) = Absent]_vars

\* one call was rejected for a 401 answer, which cleared the token it carried,
\* while another call that carries the same token is still in flight
C19_Witness ==
  \E c, d \in CallIds :
    /\ c # d
    /\ Rejected(c) /\ GotFailure(calls[c]) /\ FailureStatus(calls[c]) = Some(401)
    /\ AuthorizationOf(calls[c]) = Some("Bearer jwt-A")
    /\ calls[d].pc = "sent"
    /\ AuthorizationOf(calls[d]) = Some("Bearer jwt-A")
    /\ Token = Absent /\ location = "/login" /\ lastAuthEvent = "401"

\* C20 as claimed: when a live login made from the login form fails with a
\* failure other than a 401 answer, the form shows the message of the
\* Normalized Error the Transport Client rejected with.
C20_FormShowsMessage ==
  \A c \in CallIds :
    (calls[c].via = "LoginForm" /\ Live(c) /\ Rejected(c)
      /\ GotFailure(calls[c]) /\ FailureStatus(calls[c]) # Some(401))
    => serverError = Get(calls[c].error).message

\* the form passes validation: email non-blank and of valid format, password
\* non-blank
FormIsValid(data) ==
  isRequired(data.email) /\ isValidEmail(data.email) /\ isRequired(data.password)

\* C21: submitting the login form calls login only when validation passes
\* (email non-blank and of valid format, password non-blank), and then with
\* what was typed; when validation fails no call is made and nothing but the
\* form changes, the matching field error is set, and the server error shown
\* before is cleared.
C21_SubmitValidates ==
  /\ [](\A c \in CallIds :
          calls[c].via = "LoginForm"
          => (calls[c].op = "login" /\ FormIsValid(calls[c].args[1])))
  /\ [][(formData' = formData /\ \A c \in CallIds : ~Settles(c))
          => /\ serverError' = ""
             /\ (errors'.email # "") <=> ~(isRequired(formData.email) /\ isValidEmail(formData.email))
             /\ (errors'.email = "Email is required") <=> ~isRequired(formData.email)
             /\ (errors'.password # "") <=> ~isRequired(formData.password)
             /\ IF FormIsValid(formData)
                THEN \E c \in CallIds :
                       /\ calls'[c].pc \in {"delay", "sent"}
                       /\ calls'[c].via = "LoginForm" /\ calls'[c].op = "login"
                       /\ calls'[c].args = << formData >>
                ELSE /\ calls' = calls
                     /\ localStorage' = localStorage /\ location' = location
                     /\ queryCache' = queryCache]_vars

\* an earlier login of the form was rejected, and a later submit of an email
\* of invalid format has cleared the server error and set the field error
C21_Witness ==
  /\ calls[1].via = "LoginForm" /\ Rejected(1)
  /\ formData = [email |-> "not-an-email", password |-> "x"]
  /\ errors = [email |-> "Invalid email format", password |-> ""]
  /\ serverError = ""

\* the call was made through useAuth (by a component or by the login form)
ThroughUseAuth(call) == call.via \in {"useAuth", "LoginForm"}

\* C22: useAuth navigates only after success: a navigate() happens only in
\* the step in which a login or logout made through useAuth resolves, to
\* '/dashboard' for login and to '/login' for logout, the mutation's own
\* success callback done; when the mutation rejects useAuth does not
\* navigate and throws the error it caught.
C22_NavigateAfterSuccess ==
  [][/\ navigated' # navigated
        => \E c \in CallIds :
             ThroughUseAuth(calls[c]) /\ Settles(c) /\ calls'[c].pc = "resolved"
     /\ \A c \in CallIds :
          (ThroughUseAuth(calls[c]) /\ Settles(c))
          => IF calls'[c].pc = "resolved"
             THEN /\ navigated' = (IF calls[c].op = "login" THEN "/dashboard" ELSE "/login")
                  /\ location' = navigated'
                  /\ calls[c].op = "login" => Token' = Some(Get(calls'[c].value).token)
                  /\ calls[c].op = "logout" => Token' = Absent
             ELSE /\ navigated' = navigated
                  /\ calls'[c].error # Absent
                  /\ calls'[c].thrown = calls'[c].error
                  /\ location' = (IF GotFailure(calls'[c])
                                     /\ FailureStatus(calls'[c]) = Some(401)
                                  THEN "/login" ELSE location)]_vars

\* a logout through useAuth was rejected for a 500 answer: the last navigate
\* is still the one of the login before it, and the error is rethrown
C22_Witness ==
  \E c \in CallIds :
    /\ calls[c].via = "useAuth" /\ calls[c].op = "logout" /\ Rejected(c)
    /\ GotFailure(calls[c]) /\ FailureStatus(calls[c]) = Some(500)
    /\ calls[c].thrown = calls[c].error
    /\ navigated = "/dashboard" /\ location = "/dashboard"
    /\ Token # Absent

\* the call is a mutation made through its hook (directly or through useAuth)
ThroughHook(call) == call.via \in {"hook", "useAuth", "LoginForm"}

\* C23: when a logout mutation succeeds the token is absent, no cached query
\* whose key starts with ['users'] remains (current user, details and lists
\* are all removed), the location is '/login' and isAuthenticated is false;
\* isAuthenticated stays false until the next successful login.
C23_LogoutClears ==
  /\ [][\A c \in CallIds :
          (ThroughHook(calls[c]) /\ calls[c].op = "logout"
            /\ Settles(c) /\ calls'[c].pc = "resolved")
          => /\ Token' = Absent
             /\ \A k \in DOMAIN queryCache' : k[1] # "users"
             /\ currentUser(queryCache') = Absent
             /\ location' = "/login"
             /\ ~isAuthenticated(queryCache', localStorage')]_vars
  /\ [](lastAuthEvent # "login" => ~isAuthenticated(queryCache, localStorage))

\* after a logout has resolved a user was fetched again: the cache holds the
\* current user, and isAuthenticated is still false
C23_Witness ==
  /\ lastAuthEvent = "logout"
  /\ Token = Absent
  /\ location = "/login"
  /\ currentUser(queryCache) # Absent
  /\ ~isAuthenticated(queryCache, localStorage)
  /\ calls[1].op = "getCurrentUser" /\ Resolved(1)

\* C24: only the theme is persisted by the UI store: what persist keeps in
\* localStorage is the theme and nothing else, and after any sequence of store
\* actions a reload leaves the theme as it was last set, with isSidebarOpen,
\* isModalOpen and modalContent back at their defaults (true, false, null).
C24_OnlyThemePersisted ==
  /\ [](getItem(localStorage, "ui-storage") = Some(PersistItem([theme |-> ui.theme])))
  /\ [](lastUiAction = "reload"
          => (ui.isSidebarOpen = TRUE /\ ui.isModalOpen = FALSE /\ ui.modalContent = Absent))
  /\ [][lastUiAction' = "reload" => ui'.theme = ui.theme]_vars

\* the store was created anew after the theme had been set to dark: the
\* theme is dark, the sidebar is open
C24_Witness ==
  /\ lastUiAction = "reload"
  /\ ui = [UiInitial EXCEPT !.theme = "dark"]
  /\ UiInitial.theme = "light"

\* C28: in every state of the UI store isModalOpen = false implies
\* modalContent = null: openModal sets the flag and the content, closeModal
\* resets both, and setTheme, toggleTheme, setSidebarOpen and toggleSidebar
\* change neither.
C28_ModalInvariant ==
  /\ [](ui.isModalOpen = FALSE => ui.modalContent = Absent)
  /\ [][/\ lastUiAction' = "openModal"
           => (ui'.isModalOpen = TRUE /\ ui'.modalContent \in ModalContents)
        /\ lastUiAction' = "closeModal"
           => (ui'.isModalOpen = FALSE /\ ui'.modalContent = Absent)
        /\ lastUiAction' \in {"setTheme", "toggleTheme", "setSidebarOpen", "toggleSidebar"}
           => (ui'.isModalOpen = ui.isModalOpen /\ ui'.modalContent = ui.modalContent)]_vars

\* the sidebar was toggled while the modal was open: the modal and its
\* content are as they were
C28_Witness ==
  /\ lastUiAction = "toggleSidebar"
  /\ ui.isModalOpen = TRUE /\ ui.modalContent = Some("B")
  /\ ui.isSidebarOpen = FALSE

\* C25: the query layer runs a failing query at most twice (one retry) and a
\* failing mutation exactly once: an attempt after the first is the re-run
\* of the same query after its first attempt failed, a mutation is never in
\* a second attempt and never waits for a retry, so a failed mutation that
\* met a 401 has run the 401 handler once.
C25_RetryPolicy ==
  [][\A c \in CallIds :
       LET call == calls'[c]
       IN  /\ call.op \in QueryOps => call.attempt <= 2
           /\ (call.op \in Ops /\ call.op \notin QueryOps)
                => (call.attempt = 1 /\ ~call.retrying)
           /\ call.attempt > 1
                => /\ calls[c].pc = "rejected" \/ calls[c].attempt = call.attempt
                   /\ calls[c].op = call.op /\ calls[c].args = call.args
           /\ call.retrying => (call.pc = "rejected" /\ call.attempt = 1)]_vars

\* getCurrentUser failed with 401 in its first attempt and again in its
\* second: the query is in error and no third attempt is waiting
C25_Witness ==
  \E c \in CallIds :
    /\ calls[c].op = "getCurrentUser" /\ calls[c].via = "hook"
    /\ calls[c].attempt = 2 /\ calls[c].pc = "rejected" /\ ~calls[c].retrying
    /\ ErrorStatus(Get(calls[c].received)) = Some(401)

\* C26: a 401 answer removes whatever token is stored when it is handled,
\* whether or not the failed request carried that token: in the step that
\* handles a 401 answer while a token is stored, the token the handler
\* removes is the stored one, also when the request carried another token
\* or none (it was sent before a login stored the token), and after the
\* step no token is stored and the location is '/login'.
C26_StaleUnauthorized ==
  [][\A c \in CallIds :
       (Settles(c) /\ GotFailure(calls'[c]) /\ FailureStatus(calls'[c]) = Some(401)
          /\ Token # Absent)
       => /\ calls'[c].removed = Token
          /\ Token' = Absent
          /\ location' = "/login"]_vars

\* a request was sent without a token, a login then stored jwt-A, and the
\* 401 answer to the earlier request removed jwt-A
C26_Witness ==
  \E c, d \in CallIds :
    /\ c # d
    /\ calls[d].op = "login" /\ Resolved(d) /\ Get(calls[d].value).token = "jwt-A"
    /\ Rejected(c) /\ GotFailure(calls[c]) /\ FailureStatus(calls[c]) = Some(401)
    /\ AuthorizationOf(calls[c]) = Absent
    /\ calls[c].removed = Some("jwt-A")
    /\ Token = Absent /\ location = "/login"

\* C27: in live mode a logout that fails with anything but a 401 answer
\* (network error, timeout, 5xx) leaves the stored token, the query cache and
\* the location as they were, navigates nowhere, and the caller gets the
\* error the call was rejected with; a settlement of a logout changes the
\* token only when the logout succeeded or was answered with 401.
C27_FailedLogoutKeeps ==
  [][\A c \in CallIds :
       (Settles(c) /\ calls[c].op = "logout" /\ ThroughHook(calls[c]))
       => /\ (Live(c) /\ calls'[c].pc = "rejected" /\ FailureStatus(calls'[c]) # Some(401))
             => /\ Token' = Token
                /\ queryCache' = queryCache
                /\ location' = location
                /\ navigated' = navigated
                /\ calls'[c].thrown = calls'[c].error
                /\ calls'[c].attempt = 1 /\ ~calls'[c].retrying
          /\ Token' # Token
             => \/ calls'[c].pc = "resolved"
                \/ GotFailure(calls'[c]) /\ FailureStatus(calls'[c]) = Some(401)]_vars

\* a logout made through useAuth failed with status 500 while a user was
\* logged in: the token and the cached user are still there, the location is
\* the dashboard, and the error was thrown to the caller
C27_Witness ==
  \E c \in CallIds :
    /\ calls[c].op = "logout" /\ calls[c].via = "useAuth" /\ Live(c) /\ Rejected(c)
    /\ FailureStatus(calls[c]) = Some(500)
    /\ calls[c].thrown = calls[c].error
    /\ Token = Some("jwt-A")
    /\ currentUser(queryCache) # Absent
    /\ location = "/dashboard" /\ navigated = "/dashboard"

\* C29: for every password, isValidPassword is true exactly when the
\* password has at least 8 characters, a letter of A-Z, a letter of a-z and
\* a digit of 0-9, and exactly when getPasswordStrengthMessage returns
\* 'Password is strong'; for an invalid password the message is that of the
\* first failing rule in the order length, uppercase, lowercase, number.
C29_PasswordRules ==
  strength # Absent =>
    LET n == Len(password)
        long == n >= 8
        upper == \E i \in 1..n : password[i] \in UpperCase
        lower == \E i \in 1..n : password[i] \in LowerCase
        digit == \E i \in 1..n : password[i] \in Digits
        answer == Get(strength)
    IN  /\ answer.valid <=> (long /\ upper /\ lower /\ digit)
        /\ answer.valid <=> (answer.message = "Password is strong")
        /\ ~answer.valid =>
             answer.message =
               CASE ~long -> "Password must be at least 8 characters"
                 [] long /\ ~upper -> "Password must contain an uppercase letter"
                 [] long /\ upper /\ ~lower -> "Password must contain a lowercase letter"
                 [] long /\ upper /\ lower -> "Password must contain a number"

\* a password of seven characters with a letter of each case and a digit was
\* checked: it is invalid, and the message is that of the length
C29_Witness ==
  /\ strength # Absent
  /\ Len(password) = 7
  /\ \E i, j, k \in 1..7 :
       password[i] \in UpperCase /\ password[j] \in LowerCase /\ password[k] \in Digits
  /\ ~Get(strength).valid
  /\ Get(strength).message = "Password must be at least 8 characters"

\* C30 as claimed: over any sequence of set, remove and clear, get(k) after
\* set(k, v) returns v, get(k) returns null and has(k) is false after
\* remove(k) or clear(), has(k) is true exactly when get(k) is not null, and
\* an operation on key k other than clear leaves the item of every other key
\* as it was.
C30_ServiceConsistent ==
  /\ [](storageOp.op = "set" => get(localStorage, storageOp.key) = storageOp.value)
  /\ [](storageOp.op = "remove"
          => (get(localStorage, storageOp.key) = NullValue /\ ~has(localStorage, storageOp.key)))
  /\ [](storageOp.op = "clear"
          => \A k \in StorageKeys : get(localStorage, k) = NullValue /\ ~has(localStorage, k))
  /\ [](\A k \in StorageKeys : has(localStorage, k) <=> get(localStorage, k) # NullValue)
  /\ [][\A k \in StorageKeys :
          (storageOp'.op \in {"set", "remove"} /\ k # storageOp'.key)
          => localStorage'[k] = localStorage[k]]_vars

====
